---- MODULE Spec2Model ----
(***************************************************************************)
(* The tan db collection (src/unnamed/part_000): a dbKeeper (regular or    *)
(* multiplexed) holding a map of opened db instances, and the collection   *)
(* that lazily prepares the directory of a db, opens it and registers it.  *)
(*                                                                         *)
(* Strings are sequences of one-character strings, so that fmt.Sprintf and *)
(* PathJoin are modelled by the characters they produce.  A *db is the     *)
(* index of the db in the sequence of all dbs ever opened; 0 is nil.       *)
(* The filesystem and the engine are the environment: the result of Stat,  *)
(* MkdirAll and open is chosen among the results they can produce.         *)
(***************************************************************************)
EXTENDS Integers, Sequences, FiniteSets, TLC

VARIABLES
    keeper,     \* collection.keeper: "regular" or "multiplexed"
    dbs,        \* keeper.dbs: lookup key -> *db
    fs,         \* the directories that exist below collection.dirname
    opened,     \* opened[h]: the directory the db h was opened on
    created,    \* the directories MkdirAll created (they did not exist), in order
    pc,         \* pc[g]: where goroutine g stands in its call
    frame,      \* frame[g]: arguments and locals of g's current (or last) call
    ret,        \* ret[g]: what g's last call returned
    returned,   \* every (clusterID, nodeID, db) a getDB call has returned
    ncalls,     \* number of calls made so far
    crashed,    \* "no", or why the process died ("panic", "fatal")
    budget,     \* number of calls the callers make in this run
    faulty      \* whether Stat, MkdirAll and open can fail in this run

\* What is fixed when the collection is built and the run begins.
config == <<keeper, budget, faulty>>

vars == <<keeper, dbs, fs, opened, created, pc, frame, ret, returned,
          ncalls, crashed, budget, faulty>>

----------------------------------------------------------------------------
(* Bounds and inputs *)

MaxCalls == 3

\* Number of lookups in the runs that fill the shards: the cluster ids
\* 0 .. MaxLookups - 1, more than there are shards.
MaxLookups == 18

Goroutines == {"g1", "g2"}

\* 1 and 17 share a shard; (1, 71) and (17, 1) give names whose digits run
\* together when the separator is dropped.
ClusterIDs == {1, 17}

NodeIDs == {1, 71}

\* The cluster ids key is called with: 0, 1, 15, 16, 17 and 2^64 - 1.
KeyIDs == {<<0, 0, 0, 0>>, <<0, 0, 0, 1>>, <<0, 0, 0, 15>>, <<0, 0, 0, 16>>,
           <<0, 0, 0, 17>>, <<65535, 65535, 65535, 65535>>}

ShardCount == 16

NilDB == 0

NilErr == "nil"

ErrNotExist == "ENOENT"

\* What fs.Stat can answer for a directory that exists / does not exist.
StatErrs(exists) ==
    (IF exists THEN {NilErr} ELSE {ErrNotExist})
        \cup (IF faulty THEN {"EACCES"} ELSE {})

\* What fileutil.MkdirAll can answer.
MkdirErrs == {NilErr} \cup (IF faulty THEN {"ENOSPC"} ELSE {})

\* What open can answer.
OpenErrs == {NilErr} \cup (IF faulty THEN {"ECORRUPT"} ELSE {})

\* The error the iteration callback returns for a db it fails on.
CallbackErr(h) == "cb" \o ToString(h)

----------------------------------------------------------------------------
(* Strings *)

DigitChars == <<"0", "1", "2", "3", "4", "5", "6", "7", "8", "9">>

RECURSIVE Itoa(_)
\* %d of an unsigned number
Itoa(n) == IF n < 10 THEN <<DigitChars[n + 1]>>
           ELSE Itoa(n \div 10) \o <<DigitChars[(n % 10) + 1]>>

dirname == <<"/", "d", "a", "t", "a">>

PathJoinNoSep(dir, elem) == dir \o elem

PathJoin(dir, elem) == dir \o <<"/">> \o elem

----------------------------------------------------------------------------
(* uint64 *)

\* A uint64 that does not fit the integers of the checker is written as its
\* four 16-bit limbs, the most significant first.
LimbBase == 65536

\* The uint64 of a number below LimbBase.
ToU64(n) == <<0, 0, 0, n>>

\* 2^64 - 1
MaxU64 == <<LimbBase - 1, LimbBase - 1, LimbBase - 1, LimbBase - 1>>

\* x % m for a uint64 x and 0 < m < 2^15, by long division over the limbs
RemU64(x, m) ==
    LET r1 == x[1] % m
        r2 == (r1 * LimbBase + x[2]) % m
        r3 == (r2 * LimbBase + x[3]) % m
    IN  (r3 * LimbBase + x[4]) % m

----------------------------------------------------------------------------
(* regularKeeper *)

NodeInfo(clusterID, nodeID) == [ClusterID |-> clusterID, NodeID |-> nodeID]

regularNameNoSep(clusterID, nodeID) ==
    <<"n", "o", "d", "e", "-">> \o Itoa(clusterID) \o Itoa(nodeID)

regularName(clusterID, nodeID) ==
    <<"n", "o", "d", "e", "-">> \o Itoa(clusterID) \o <<"-">> \o Itoa(nodeID)

regularGet(m, clusterID, nodeID) ==
    LET ni == NodeInfo(clusterID, nodeID)
    IN  IF ni \in DOMAIN m THEN [v |-> m[ni], ok |-> TRUE]
        ELSE [v |-> NilDB, ok |-> FALSE]

regularSetAlone(m, clusterID, nodeID, db) ==
    [k \in {NodeInfo(clusterID, nodeID)} |-> db]

regularSet(m, clusterID, nodeID, db) ==
    LET ni == NodeInfo(clusterID, nodeID)
    IN  [k \in DOMAIN m \cup {ni} |-> IF k = ni THEN db ELSE m[k]]

----------------------------------------------------------------------------
(* multiplexedKeeper *)

keyNoMod(clusterID) == clusterID

keyMod32(clusterID) == clusterID % (2 * ShardCount)

key(clusterID) == clusterID % ShardCount

key64Mod15(x) == RemU64(x, ShardCount - 1)

\* line 104 for a clusterID of the full width
key64(x) == RemU64(x, ShardCount)

multiplexedName(clusterID, nodeID) ==
    <<"s", "h", "a", "r", "d", "-">> \o Itoa(key(clusterID))

multiplexedGetByClusterID(m, clusterID, nodeID) ==
    IF clusterID \in DOMAIN m THEN [v |-> m[clusterID], ok |-> TRUE]
    ELSE [v |-> NilDB, ok |-> FALSE]

multiplexedGet(m, clusterID, nodeID) ==
    LET k == key(clusterID)
    IN  IF k \in DOMAIN m THEN [v |-> m[k], ok |-> TRUE]
        ELSE [v |-> NilDB, ok |-> FALSE]

multiplexedSetIfAbsent(m, clusterID, nodeID, db) ==
    LET kk == key(clusterID)
    IN  IF kk \in DOMAIN m THEN m
        ELSE [k \in DOMAIN m \cup {kk} |-> IF k = kk THEN db ELSE m[k]]

multiplexedSet(m, clusterID, nodeID, db) ==
    LET kk == key(clusterID)
    IN  [k \in DOMAIN m \cup {kk} |-> IF k = kk THEN db ELSE m[k]]

----------------------------------------------------------------------------
(* dbKeeper: the call goes to the keeper the collection was built with *)

name(clusterID, nodeID) ==
    IF keeper = "regular" THEN regularName(clusterID, nodeID)
    ELSE multiplexedName(clusterID, nodeID)

getNever(clusterID, nodeID) == [v |-> NilDB, ok |-> FALSE]

get(clusterID, nodeID) ==
    IF keeper = "regular" THEN regularGet(dbs, clusterID, nodeID)
    ELSE multiplexedGet(dbs, clusterID, nodeID)

set(clusterID, nodeID, db) ==
    IF keeper = "regular" THEN regularSet(dbs, clusterID, nodeID, db)
    ELSE multiplexedSet(dbs, clusterID, nodeID, db)

\* The key under which get and set keep the db of (clusterID, nodeID).
lookupKey(clusterID, nodeID) ==
    IF keeper = "regular" THEN NodeInfo(clusterID, nodeID) ELSE key(clusterID)

dbdirOfRoot(clusterID, nodeID) == dirname

\* dbdir of getDB
dbdirOf(clusterID, nodeID) == PathJoin(dirname, name(clusterID, nodeID))

----------------------------------------------------------------------------
(* State after newCollection *)

NoFrame ==
    [op |-> "none", clusterID |-> 0, nodeID |-> 0, hit |-> FALSE,
     dbdir |-> <<>>, db |-> NilDB,
     statErr |-> "none", mkdirErr |-> "none", openErr |-> "none",
     nstat |-> 0, nmkdir |-> 0, nopen |-> 0,
     failOn |-> {}, keys |-> {}, seen |-> {}, visited |-> <<>>,
     u64 |-> <<>>,
     statArg |-> <<>>, mkdirArg |-> <<>>, openArgs |-> <<>>]

NoRet == [db |-> NilDB, err |-> NilErr, val |-> 0, flag |-> FALSE]

\* newCollection(dirname, fs, regular): an empty keeper of the chosen kind.
\* The root may hold a db directory left by an earlier run of the process.
Init ==
    /\ keeper \in {"regular", "multiplexed"}
    /\ dbs = [k \in {} |-> NilDB]
    /\ fs \in {{}, {dbdirOf(1, 1)}}
    /\ opened = <<>>
    /\ created = <<>>
    /\ pc = [g \in Goroutines |-> "idle"]
    /\ frame = [g \in Goroutines |-> NoFrame]
    /\ ret = [g \in Goroutines |-> NoRet]
    /\ returned = {}
    /\ ncalls = 0
    /\ crashed = "no"
    /\ budget = MaxCalls
    /\ faulty = TRUE

\* A goroutine may start a call.
CanCall(g) == crashed = "no" /\ pc[g] = "idle" /\ ncalls < budget

NewFrame(op, clusterID, nodeID) ==
    [NoFrame EXCEPT !.op = op, !.clusterID = clusterID, !.nodeID = nodeID]

----------------------------------------------------------------------------
(* collection.getDB *)

\* lines 155-160: the lookup; a hit returns, a miss computes dbdir
GetDB_get(g, clusterID, nodeID) ==
    /\ CanCall(g)
    /\ ncalls' = ncalls + 1
    /\ LET r == get(clusterID, nodeID)
           f == NewFrame("getDB", clusterID, nodeID)
       IN  IF r.ok
           THEN /\ frame' = [frame EXCEPT ![g] = [f EXCEPT !.hit = TRUE]]
                /\ ret' = [ret EXCEPT ![g] = [NoRet EXCEPT !.db = r.v]]
                /\ returned' = returned \cup {<<clusterID, nodeID, r.v>>}
                /\ pc' = pc
           ELSE /\ frame' = [frame EXCEPT ![g] =
                       [f EXCEPT !.dbdir = dbdirOf(clusterID, nodeID)]]
                /\ ret' = [ret EXCEPT ![g] = NoRet]
                /\ returned' = returned
                /\ pc' = [pc EXCEPT ![g] = "stat"]
    /\ UNCHANGED <<config, dbs, fs, opened, created, crashed>>

IsNotExist(err) == err = ErrNotExist

\* line 173: what prepareDir does after Stat answered err
afterStat(err) == IF IsNotExist(err) THEN "mkdir" ELSE "open"

\* prepareDir, line 173: fs.Stat(dbdir)
PrepareDir_stat(g) ==
    /\ crashed = "no"
    /\ pc[g] = "stat"
    /\ \E err \in StatErrs(frame[g].dbdir \in fs) :
        /\ frame' = [frame EXCEPT ![g].statErr = err,
                                  ![g].nstat = @ + 1,
                                  ![g].statArg = frame[g].dbdir]
        /\ pc' = [pc EXCEPT ![g] = afterStat(err)]
    /\ UNCHANGED <<config, dbs, fs, opened, created, ret, returned, ncalls,
                   crashed>>

PrepareDir_mkdirIgnoreErr(g) ==
    /\ crashed = "no"
    /\ pc[g] = "mkdir"
    /\ \E err \in MkdirErrs :
        /\ frame' = [frame EXCEPT ![g].mkdirErr = err,
                                  ![g].nmkdir = @ + 1,
                                  ![g].mkdirArg = frame[g].dbdir]
        /\ pc' = [pc EXCEPT ![g] = "open"]
        /\ ret' = ret
        /\ IF err # NilErr
           THEN UNCHANGED <<fs, created>>
           ELSE /\ fs' = fs \cup {frame[g].dbdir}
                /\ created' = IF frame[g].dbdir \in fs THEN created
                              ELSE Append(created, frame[g].dbdir)
    /\ UNCHANGED <<config, dbs, opened, returned, ncalls, crashed>>

\* prepareDir, lines 174-176, and getDB, lines 161-163: MkdirAll(dbdir)
PrepareDir_mkdir(g) ==
    /\ crashed = "no"
    /\ pc[g] = "mkdir"
    /\ \E err \in MkdirErrs :
        /\ frame' = [frame EXCEPT ![g].mkdirErr = err,
                                  ![g].nmkdir = @ + 1,
                                  ![g].mkdirArg = frame[g].dbdir]
        /\ IF err # NilErr
           THEN /\ ret' = [ret EXCEPT ![g] = [NoRet EXCEPT !.err = err]]
                /\ pc' = [pc EXCEPT ![g] = "idle"]
                /\ UNCHANGED <<fs, created>>
           ELSE /\ fs' = fs \cup {frame[g].dbdir}
                /\ created' = IF frame[g].dbdir \in fs THEN created
                              ELSE Append(created, frame[g].dbdir)
                /\ pc' = [pc EXCEPT ![g] = "open"]
                /\ ret' = ret
    /\ UNCHANGED <<config, dbs, opened, returned, ncalls, crashed>>

GetDB_openPoison(g) ==
    /\ crashed = "no"
    /\ pc[g] = "open"
    /\ \E err \in OpenErrs :
        IF err # NilErr
        THEN /\ frame' = [frame EXCEPT ![g].openErr = err,
                                       ![g].nopen = @ + 1,
                                       ![g].openArgs = <<frame[g].dbdir,
                                                         frame[g].dbdir>>]
             /\ dbs' = set(frame[g].clusterID, frame[g].nodeID, NilDB)
             /\ ret' = [ret EXCEPT ![g] = [NoRet EXCEPT !.err = err]]
             /\ pc' = [pc EXCEPT ![g] = "idle"]
             /\ opened' = opened
        ELSE /\ opened' = Append(opened, frame[g].dbdir)
             /\ frame' = [frame EXCEPT ![g].openErr = err,
                                       ![g].nopen = @ + 1,
                                       ![g].openArgs = <<frame[g].dbdir,
                                                         frame[g].dbdir>>,
                                       ![g].db = Len(opened) + 1]
             /\ dbs' = dbs
             /\ pc' = [pc EXCEPT ![g] = "set"]
             /\ ret' = ret
    /\ UNCHANGED <<config, fs, created, returned, ncalls, crashed>>

\* getDB, lines 164-167: open(dbdir, dbdir, ...)
GetDB_open(g) ==
    /\ crashed = "no"
    /\ pc[g] = "open"
    /\ \E err \in OpenErrs :
        IF err # NilErr
        THEN /\ frame' = [frame EXCEPT ![g].openErr = err,
                                       ![g].nopen = @ + 1,
                                       ![g].openArgs = <<frame[g].dbdir,
                                                         frame[g].dbdir>>]
             /\ ret' = [ret EXCEPT ![g] = [NoRet EXCEPT !.err = err]]
             /\ pc' = [pc EXCEPT ![g] = "idle"]
             /\ opened' = opened
        ELSE /\ opened' = Append(opened, frame[g].dbdir)
             /\ frame' = [frame EXCEPT ![g].openErr = err,
                                       ![g].nopen = @ + 1,
                                       ![g].openArgs = <<frame[g].dbdir,
                                                         frame[g].dbdir>>,
                                       ![g].db = Len(opened) + 1]
             /\ pc' = [pc EXCEPT ![g] = "set"]
             /\ ret' = ret
    /\ UNCHANGED <<config, dbs, fs, created, returned, ncalls, crashed>>

\* getDB, lines 168-169: keeper.set and the return of the new db
GetDB_set(g) ==
    /\ crashed = "no"
    /\ pc[g] = "set"
    /\ dbs' = set(frame[g].clusterID, frame[g].nodeID, frame[g].db)
    /\ ret' = [ret EXCEPT ![g] = [NoRet EXCEPT !.db = frame[g].db]]
    /\ returned' = returned \cup
                     {<<frame[g].clusterID, frame[g].nodeID, frame[g].db>>}
    /\ pc' = [pc EXCEPT ![g] = "idle"]
    /\ UNCHANGED <<config, fs, opened, created, frame, ncalls, crashed>>

----------------------------------------------------------------------------
(* collection.iterate: keeper.iterate, the same loop in both keepers *)

\* The dbs the keeper holds.
Cached == {dbs[k] : k \in DOMAIN dbs}

\* line 182: the call, with a callback f that fails on the dbs of failOn
Iterate_call(g, failOn) ==
    /\ CanCall(g)
    /\ ncalls' = ncalls + 1
    /\ frame' = [frame EXCEPT ![g] =
            [NewFrame("iterate", 0, 0) EXCEPT !.failOn = failOn,
                                              !.keys = DOMAIN dbs]]
    /\ ret' = [ret EXCEPT ![g] = NoRet]
    /\ pc' = [pc EXCEPT ![g] = "iter"]
    /\ UNCHANGED <<config, dbs, fs, opened, created, returned, crashed>>

Iterate_visitAll(g) ==
    /\ crashed = "no"
    /\ pc[g] = "iter"
    /\ \E k \in DOMAIN dbs \ frame[g].seen :
        /\ frame' = [frame EXCEPT ![g].seen = @ \cup {k},
                                  ![g].visited = Append(@, dbs[k])]
        /\ ret' = ret
        /\ pc' = pc
    /\ UNCHANGED <<config, dbs, fs, opened, created, returned, ncalls,
                   crashed>>

\* lines 74-77 / 117-120: range yields an entry not yet produced, in no
\* particular order, and f is called on its db; a failure of f is returned
Iterate_visit(g) ==
    /\ crashed = "no"
    /\ pc[g] = "iter"
    /\ \E k \in DOMAIN dbs \ frame[g].seen :
        LET db == dbs[k]
        IN  /\ frame' = [frame EXCEPT ![g].seen = @ \cup {k},
                                      ![g].visited = Append(@, db)]
            /\ IF db \in frame[g].failOn
               THEN /\ ret' = [ret EXCEPT ![g] =
                                 [NoRet EXCEPT !.err = CallbackErr(db)]]
                    /\ pc' = [pc EXCEPT ![g] = "idle"]
               ELSE /\ ret' = ret
                    /\ pc' = pc
    /\ UNCHANGED <<config, dbs, fs, opened, created, returned, ncalls,
                   crashed>>

Iterate_returnEarly(g) ==
    /\ crashed = "no"
    /\ pc[g] = "iter"
    /\ ret' = [ret EXCEPT ![g] = NoRet]
    /\ pc' = [pc EXCEPT ![g] = "idle"]
    /\ UNCHANGED <<config, dbs, fs, opened, created, frame, returned, ncalls,
                   crashed>>

\* lines 78-79 / 121-122: the range is over, nil is returned.  Every entry
\* the map held when the range began has been produced; an entry added
\* during the range may have been left out.
Iterate_return(g) ==
    /\ crashed = "no"
    /\ pc[g] = "iter"
    /\ frame[g].keys \subseteq frame[g].seen
    /\ ret' = [ret EXCEPT ![g] = NoRet]
    /\ pc' = [pc EXCEPT ![g] = "idle"]
    /\ UNCHANGED <<config, dbs, fs, opened, created, frame, returned, ncalls,
                   crashed>>

----------------------------------------------------------------------------
(* collection.multiplexedLog and collection.key *)

regularMultiplexedLogTrue == TRUE

regularMultiplexedLog == FALSE

multiplexedMultiplexedLog == TRUE

\* lines 146-148
MultiplexedLog(g) ==
    /\ CanCall(g)
    /\ ncalls' = ncalls + 1
    /\ frame' = [frame EXCEPT ![g] = NewFrame("multiplexedLog", 0, 0)]
    /\ ret' = [ret EXCEPT ![g] =
            [NoRet EXCEPT !.flag = IF keeper = "regular"
                                   THEN regularMultiplexedLog
                                   ELSE multiplexedMultiplexedLog]]
    /\ UNCHANGED <<config, dbs, fs, opened, created, pc, returned, crashed>>

KeyReturns(g, x) ==
    /\ CanCall(g)
    /\ ncalls' = ncalls + 1
    /\ frame' = [frame EXCEPT ![g] = [NewFrame("key", 0, 0) EXCEPT !.u64 = x]]
    /\ ret' = [ret EXCEPT ![g] = [NoRet EXCEPT !.val = key64(x)]]
    /\ UNCHANGED <<config, dbs, fs, opened, created, pc, returned, crashed>>

\* lines 150-152: regularKeeper.key panics, multiplexedKeeper.key returns;
\* the clusterID x is a uint64 of the full width
Key(g, x) ==
    /\ CanCall(g)
    /\ ncalls' = ncalls + 1
    /\ frame' = [frame EXCEPT ![g] = [NewFrame("key", 0, 0) EXCEPT !.u64 = x]]
    /\ IF keeper = "regular"
       THEN /\ crashed' = "panic"
            /\ pc' = [pc EXCEPT ![g] = "panic"]
            /\ ret' = [ret EXCEPT ![g] = NoRet]
       ELSE /\ crashed' = crashed
            /\ pc' = pc
            /\ ret' = [ret EXCEPT ![g] = [NoRet EXCEPT !.val = key64(x)]]
    /\ UNCHANGED <<config, dbs, fs, opened, created, returned>>

----------------------------------------------------------------------------
(* Specification: calls are made one at a time *)

\* No other goroutine is inside a call.
Serialized(g) == \A o \in Goroutines \ {g} : pc[o] = "idle"

Next ==
    \E g \in Goroutines :
        \/ \E c \in ClusterIDs, n \in NodeIDs :
               Serialized(g) /\ GetDB_get(g, c, n)
        \/ PrepareDir_stat(g)
        \/ PrepareDir_mkdir(g)
        \/ GetDB_open(g)
        \/ GetDB_set(g)
        \/ \E failOn \in SUBSET (1..Len(opened)) :
               Serialized(g) /\ Iterate_call(g, failOn)
        \/ Iterate_visit(g)
        \/ Iterate_return(g)
        \/ Serialized(g) /\ MultiplexedLog(g)
        \/ \E x \in KeyIDs : Serialized(g) /\ Key(g, x)

Spec == Init /\ [][Next]_vars

\* A goroutine that is inside getDB goes on: Stat, MkdirAll and open answer.
FairSpec ==
    /\ Spec
    /\ \A g \in Goroutines :
          WF_vars(PrepareDir_stat(g) \/ PrepareDir_mkdir(g)
                    \/ GetDB_open(g) \/ GetDB_set(g))

----------------------------------------------------------------------------
(* Specification: goroutines call without synchronization *)

\* Only getDB and iterate are called, with a callback that never fails.
\* The map of the keeper is a plain Go map.  A write to it (lines 70, 113)
\* that overlaps another goroutine's write, range or lookup is a data race;
\* the accesses may take effect one after the other, or the runtime stops
\* the process with a fatal error.
RaceFatal(g) ==
    /\ crashed = "no"
    /\ pc[g] = "set"
    /\ \E o \in Goroutines \ {g} :
           \/ pc[o] \in {"set", "iter"}
           \/ pc[o] = "idle" /\ ncalls < budget
    /\ crashed' = "fatal"
    /\ UNCHANGED <<config, dbs, fs, opened, created, pc, frame, ret,
                   returned, ncalls>>

NextConc ==
    \E g \in Goroutines :
        \/ \E c \in ClusterIDs, n \in NodeIDs : GetDB_get(g, c, n)
        \/ PrepareDir_stat(g)
        \/ PrepareDir_mkdir(g)
        \/ GetDB_open(g)
        \/ GetDB_set(g)
        \/ Iterate_call(g, {})
        \/ Iterate_visit(g)
        \/ Iterate_return(g)
        \/ RaceFatal(g)

SpecConc == Init /\ [][NextConc]_vars

----------------------------------------------------------------------------
(* Specification: more groups than shards *)

\* A multiplexed collection on an empty root; nothing fails in these runs.
InitShards ==
    /\ keeper = "multiplexed"
    /\ dbs = [k \in {} |-> NilDB]
    /\ fs = {}
    /\ opened = <<>>
    /\ created = <<>>
    /\ pc = [g \in Goroutines |-> "idle"]
    /\ frame = [g \in Goroutines |-> NoFrame]
    /\ ret = [g \in Goroutines |-> NoRet]
    /\ returned = {}
    /\ ncalls = 0
    /\ crashed = "no"
    /\ budget = MaxLookups
    /\ faulty = FALSE

\* getDB is called, one call at a time and by either goroutine, for the
\* cluster ids 0, 1, 2, ... in this order, each with node id 1.
NextShards ==
    \E g \in Goroutines :
        \/ Serialized(g) /\ GetDB_get(g, ncalls, 1)
        \/ PrepareDir_stat(g)
        \/ PrepareDir_mkdir(g)
        \/ GetDB_open(g)
        \/ GetDB_set(g)

SpecShards == InitShards /\ [][NextShards]_vars

----------------------------------------------------------------------------
(* Notions the properties below are stated with *)

\* The group identifiers getDB is called with.
GroupIDs == ClusterIDs \X NodeIDs

\* The lookup key of the getDB call in goroutine g's frame.
FrameKey(f) == lookupKey(f.clusterID, f.nodeID)

\* Goroutine g's last call was a getDB that has returned a db.
GotDB(g) ==
    /\ frame[g].op = "getDB"
    /\ pc[g] = "idle"
    /\ ret[g].err = NilErr

\* Goroutine g's last call was a getDB that has returned an error.
FailedDB(g) ==
    /\ frame[g].op = "getDB"
    /\ pc[g] = "idle"
    /\ ret[g].err # NilErr

\* The step starts a call of goroutine g.
Calls(g) ==
    /\ ncalls' = ncalls + 1
    /\ pc[g] = "idle"
    /\ frame'[g] # frame[g] \/ pc'[g] # pc[g] \/ ret'[g] # ret[g]

\* The step ends a call of goroutine g.
Returns(g) == pc'[g] = "idle" /\ (pc[g] # "idle" \/ Calls(g))

\* An answer of Stat, MkdirAll or open that is an error.
IsErr(e) == e \notin {"none", NilErr}

\* The elements of the sequence s.
Range(s) == {s[i] : i \in 1..Len(s)}

\* How many times x occurs in the sequence s.
Count(s, x) == Cardinality({i \in 1..Len(s) : s[i] = x})

----------------------------------------------------------------------------
(* C1 *)

\* C1: with calls made one at a time, an entry of the keeper's map is never
\* removed and never given another db; a getDB misses only for a key that
\* has no entry; and every getDB that returns a db returns the db of the
\* entry of its lookup key.
C1_OneHandlePerKey ==
    [][ /\ \A k \in DOMAIN dbs : k \in DOMAIN dbs' /\ dbs'[k] = dbs[k]
        /\ \A g \in Goroutines :
              (pc[g] = "idle" /\ pc'[g] = "stat")
                  => FrameKey(frame'[g]) \notin DOMAIN dbs
        /\ \A g \in Goroutines :
              (frame'[g].op = "getDB" /\ pc'[g] = "idle"
                                       /\ ret'[g].err = NilErr)
                  => /\ FrameKey(frame'[g]) \in DOMAIN dbs'
                     /\ ret'[g].db = dbs'[FrameKey(frame'[g])]
                     /\ ret'[g].db # NilDB
      ]_vars

\* Two getDB calls have returned the same db: one opened it, the other
\* found it in the map.
C1_Witness ==
    \E g, o \in Goroutines :
        /\ g # o
        /\ GotDB(g) /\ ~frame[g].hit
        /\ GotDB(o) /\ frame[o].hit
        /\ FrameKey(frame[g]) = FrameKey(frame[o])
        /\ ret[g].db = ret[o].db
        /\ ret[g].db # NilDB
        /\ ncalls = MaxCalls

----------------------------------------------------------------------------
(* C2 *)

\* The dbs getDB has returned to a caller.
Received == {r[3] : r \in returned}

\* C2: without synchronization, the db a getDB call registers replaces
\* whatever entry its lookup key had, and is returned; so every db a caller
\* has received is either the db of its key's entry or was replaced there
\* by another db opened on the same directory.  A db that was received and
\* is in no entry never gets into one again, and iterate calls the callback
\* only on dbs that are in the map.
C2_LastRegistrationWins ==
    /\ [][ \A g \in Goroutines :
              (pc[g] = "set" /\ pc'[g] = "idle")
                  => /\ FrameKey(frame[g]) \in DOMAIN dbs'
                     /\ dbs'[FrameKey(frame[g])] = frame[g].db
                     /\ ret'[g].db = frame[g].db
                     /\ <<frame[g].clusterID, frame[g].nodeID, frame[g].db>>
                            \in returned'
         ]_vars
    /\ [](\A r \in returned :
            LET k == lookupKey(r[1], r[2])
            IN  /\ k \in DOMAIN dbs
                /\ dbs[k] # r[3] => opened[dbs[k]] = opened[r[3]])
    /\ [][ /\ \A h \in Received : h \notin Cached => h \notin Cached'
           /\ \A g \in Goroutines :
                 (pc[g] = "iter" /\ frame'[g].visited # frame[g].visited)
                     => \E h \in Cached :
                           frame'[g].visited = Append(frame[g].visited, h)
         ]_vars

\* Two dbs were opened on one directory and both were returned to callers;
\* the map holds one of them, and an iterate has visited that one only.
C2_Witness ==
    \E g, o \in Goroutines : \E h1, h2 \in Received :
        /\ h1 # h2
        /\ opened[h1] = opened[h2]
        /\ h1 \notin Cached
        /\ h2 \in Cached
        /\ frame[o].op = "getDB" /\ ~frame[o].hit /\ pc[o] = "idle"
        /\ ret[o].db = h1
        /\ frame[o].nstat = 1 /\ frame[o].nopen = 1
        /\ frame[g].op = "iterate" /\ pc[g] = "idle"
        /\ frame[g].visited = <<h2>>

----------------------------------------------------------------------------
(* C3 *)

\* What C3 and its amendment share: names and entries of the groups of one
\* shard, and the number of successful opens of the shard's directory.
Grouping(c1, n1, c2, n2) ==
    /\ multiplexedName(c1, n1) = multiplexedName(c2, n2)
    /\ multiplexedGet(dbs, c1, n1) = multiplexedGet(dbs, c2, n2)
    /\ \A g \in Goroutines :
          (GotDB(g) /\ frame[g].clusterID = c1 /\ frame[g].nodeID = n1)
              => /\ multiplexedGet(dbs, c2, n2).ok
                 /\ multiplexedGet(dbs, c2, n2).v = ret[g].db
                 /\ Count(opened, PathJoin(dirname, multiplexedName(c2, n2))) = 1

----------------------------------------------------------------------------
(* C4 *)

\* C4: under the regular keeper, two different group identifiers have
\* different names and different directories, and no db is returned by
\* getDB for two different group identifiers.
C4_Isolation ==
    keeper = "regular" =>
        /\ \A a, b \in GroupIDs :
              a # b => /\ regularName(a[1], a[2]) # regularName(b[1], b[2])
                       /\ dbdirOf(a[1], a[2]) # dbdirOf(b[1], b[2])
        /\ \A r1, r2 \in returned :
              (r1[1] # r2[1] \/ r1[2] # r2[2]) => r1[3] # r2[3]

\* getDB has returned a db for (1, 1), for (1, 71), which shares the cluster
\* id, and for (17, 1), which shares the node id.
C4_Witness ==
    /\ keeper = "regular"
    /\ \E h1, h2, h3 \in 1..Len(opened) :
          {<<1, 1, h1>>, <<1, 71, h2>>, <<17, 1, h3>>} \subseteq returned

----------------------------------------------------------------------------
(* C5 *)

\* C5: with calls made one at a time, a getDB that returns an error returns
\* no db and leaves the map as it was, without an entry for its lookup key;
\* a getDB for a key without entry starts again at Stat, with nothing done
\* yet; and when open succeeds, the new db is registered under the key and
\* returned.
C5_FailureDoesNotPoison ==
    [][ \A g \in Goroutines :
          /\ (Returns(g) /\ frame'[g].op = "getDB" /\ ret'[g].err # NilErr)
                => /\ ret'[g].db = NilDB
                   /\ dbs' = dbs
                   /\ FrameKey(frame'[g]) \notin DOMAIN dbs'
          /\ (Calls(g) /\ frame'[g].op = "getDB"
                       /\ FrameKey(frame'[g]) \notin DOMAIN dbs)
                => /\ pc'[g] = "stat"
                   /\ frame'[g].nstat = 0 /\ frame'[g].nmkdir = 0
                   /\ frame'[g].nopen = 0 /\ frame'[g].db = NilDB
          /\ (pc[g] = "open" /\ frame'[g].openErr = NilErr)
                => /\ pc'[g] = "set"
                   /\ frame'[g].db = Len(opened')
                   /\ frame'[g].db \notin Cached
          /\ (pc[g] = "set" /\ pc'[g] = "idle")
                => /\ FrameKey(frame[g]) \in DOMAIN dbs'
                   /\ dbs'[FrameKey(frame[g])] = frame[g].db
                   /\ ret'[g] = [NoRet EXCEPT !.db = frame[g].db]
      ]_vars

\* A getDB failed, and a later getDB for the same key went through Stat and
\* open and registered a db.
C5_Witness ==
    \E g, o \in Goroutines :
        /\ FailedDB(g)
        /\ GotDB(o) /\ ~frame[o].hit
        /\ FrameKey(frame[g]) = FrameKey(frame[o])
        /\ frame[o].nstat = 1 /\ frame[o].nopen = 1
        /\ dbs[FrameKey(frame[o])] = ret[o].db

----------------------------------------------------------------------------
(* C6 *)

\* C6: when Stat answers an error other than "not found", getDB does not
\* call open, returns that error and no db, and registers nothing.
C6_StatErrorReturned ==
    \A g \in Goroutines :
        (frame[g].op = "getDB" /\ IsErr(frame[g].statErr)
                               /\ ~IsNotExist(frame[g].statErr))
            => /\ frame[g].nopen = 0
               /\ frame[g].db = NilDB
               /\ pc[g] = "idle" =>
                     /\ ret[g].err = frame[g].statErr
                     /\ ret[g].db = NilDB

----------------------------------------------------------------------------
(* C7 *)

\* C7: with calls made one at a time, a getDB for a group whose key has an
\* entry is a hit: it returns the db of the entry and calls neither Stat nor
\* MkdirAll nor open; a getDB that opened a db did exactly one Stat, at most
\* one MkdirAll and exactly one open; and the directory of a group for which
\* getDB has returned a db has been opened successfully exactly once.
C7_IdempotentLookup ==
    /\ [][ \A g \in Goroutines :
              (Calls(g) /\ frame'[g].op = "getDB"
                        /\ FrameKey(frame'[g]) \in DOMAIN dbs)
                  => /\ frame'[g].hit
                     /\ pc'[g] = "idle"
                     /\ ret'[g] = [NoRet EXCEPT !.db = dbs[FrameKey(frame'[g])]]
                     /\ <<dbs', fs', opened', created'>>
                            = <<dbs, fs, opened, created>>
         ]_vars
    /\ [](\A g \in Goroutines :
            /\ (frame[g].op = "getDB" /\ frame[g].hit)
                  => /\ pc[g] = "idle"
                     /\ frame[g].nstat = 0 /\ frame[g].nmkdir = 0
                     /\ frame[g].nopen = 0
            /\ (GotDB(g) /\ ~frame[g].hit)
                  => /\ frame[g].nstat = 1
                     /\ frame[g].nmkdir <= 1
                     /\ frame[g].nopen = 1
            /\ GotDB(g)
                  => Count(opened,
                           dbdirOf(frame[g].clusterID, frame[g].nodeID)) = 1)

\* getDB(17, 71) created the directory and opened the db; getDB(17, 71)
\* again returned that db without Stat, MkdirAll or open.
C7_Witness ==
    \E g, o \in Goroutines :
        /\ GotDB(g) /\ ~frame[g].hit
        /\ frame[g].clusterID = 17 /\ frame[g].nodeID = 71
        /\ frame[g].nstat = 1 /\ frame[g].nmkdir = 1 /\ frame[g].nopen = 1
        /\ GotDB(o) /\ frame[o].hit
        /\ frame[o].clusterID = 17 /\ frame[o].nodeID = 71
        /\ frame[o].nstat = 0 /\ frame[o].nmkdir = 0 /\ frame[o].nopen = 0
        /\ ret[o].db = ret[g].db
        /\ opened = <<frame[g].dbdir>>

----------------------------------------------------------------------------
(* C8 *)

\* What a getDB call has done and returned so far.
NoRetry(g) ==
    frame[g].op = "getDB" =>
        /\ frame[g].nstat <= 1 /\ frame[g].nmkdir <= 1 /\ frame[g].nopen <= 1
        /\ IsErr(frame[g].mkdirErr)
              => /\ frame[g].nopen = 0
                 /\ pc[g] = "idle"
                 /\ ret[g] = [NoRet EXCEPT !.err = frame[g].mkdirErr]
        /\ IsErr(frame[g].openErr)
              => /\ pc[g] = "idle"
                 /\ ret[g] = [NoRet EXCEPT !.err = frame[g].openErr]
        /\ pc[g] = "idle"
              => \/ ret[g].db # NilDB /\ ret[g].err = NilErr
                 \/ ret[g].db = NilDB /\ ret[g].err # NilErr

\* C8: a getDB call does at most one Stat, one MkdirAll and one open; when
\* MkdirAll fails, open is not called and getDB returns the error of
\* MkdirAll and no db; when open fails, getDB returns the error of open and
\* no db; a getDB that has returned has returned a db and no error, or an
\* error and no db; and every getDB call returns.
C8_ErrorReturnedNoRetry ==
    /\ [](\A g \in Goroutines : NoRetry(g))
    /\ \A g \in Goroutines :
          (pc[g] \in {"stat", "mkdir", "open", "set"}) ~> (pc[g] = "idle")

\* One getDB has returned the error of MkdirAll, another the error of open.
C8_Witness ==
    \E g, o \in Goroutines :
        /\ FailedDB(g) /\ IsErr(frame[g].mkdirErr)
        /\ ret[g].err = frame[g].mkdirErr
        /\ frame[g].nstat = 1 /\ frame[g].nmkdir = 1 /\ frame[g].nopen = 0
        /\ FailedDB(o) /\ IsErr(frame[o].openErr)
        /\ ret[o].err = frame[o].openErr
        /\ frame[o].nopen = 1

----------------------------------------------------------------------------
(* C9 *)

\* What an iterate call has visited and returned so far.
FailFast(g) ==
    LET v == frame[g].visited
    IN  frame[g].op = "iterate" =>
            /\ \A i, j \in 1..Len(v) : i # j => v[i] # v[j]
            /\ Len(v) <= Cardinality(Cached)
            /\ Len(v) <= Cardinality(DOMAIN dbs)
            /\ \A i \in 1..Len(v) :
                  v[i] \in frame[g].failOn
                      => /\ i = Len(v)
                         /\ pc[g] = "idle"
                         /\ ret[g] = [NoRet EXCEPT !.err = CallbackErr(v[i])]
            /\ (pc[g] = "idle" /\ ret[g].err # NilErr)
                  => /\ v # <<>>
                     /\ v[Len(v)] \in frame[g].failOn

\* C9: under both keepers, iterate calls the callback on each db at most
\* once and on no more dbs than the map holds; the first db the callback
\* fails on is the last one visited, and iterate returns the callback's
\* error for that db; iterate leaves the map as it is.
C9_IterateFailFast ==
    /\ [](\A g \in Goroutines : FailFast(g))
    /\ [][ \A g \in Goroutines :
              (pc[g] = "iter" \/ (Calls(g) /\ frame'[g].op = "iterate"))
                  => dbs' = dbs
         ]_vars

\* The map holds two dbs and the callback fails on both: iterate has visited
\* one and returned its error.
C9_Witness ==
    \E g \in Goroutines :
        /\ frame[g].op = "iterate" /\ pc[g] = "idle"
        /\ Cardinality(Cached) = 2
        /\ frame[g].failOn = Cached
        /\ Len(frame[g].visited) = 1
        /\ ret[g].err = CallbackErr(frame[g].visited[1])

----------------------------------------------------------------------------
(* C10 *)

\* C10: an iterate whose callback fails on no db returns nil after visiting
\* every db of the map exactly once (none when the map is empty); no step of
\* an iterate changes the map, the directories or the opened dbs, and an
\* iterate calls neither Stat nor MkdirAll nor open.
C10_IterateVisitsAll ==
    /\ [][ \A g \in Goroutines :
              /\ (pc[g] = "iter" \/ (Calls(g) /\ frame'[g].op = "iterate"))
                    => <<dbs', fs', opened', created', returned'>>
                           = <<dbs, fs, opened, created, returned>>
              /\ (pc[g] = "iter" /\ pc'[g] = "idle"
                                 /\ frame[g].failOn \cap Cached = {})
                    => /\ ret'[g] = NoRet
                       /\ Range(frame'[g].visited) = Cached
                       /\ Len(frame'[g].visited) = Cardinality(DOMAIN dbs)
                       /\ Len(frame'[g].visited) = Cardinality(Cached)
         ]_vars
    /\ [](\A g \in Goroutines :
            frame[g].op = "iterate"
                => /\ frame[g].nstat = 0 /\ frame[g].nmkdir = 0
                   /\ frame[g].nopen = 0
                   /\ Range(frame[g].visited) \subseteq Cached
                   /\ pc[g] \in {"iter", "idle"})

\* The map holds two dbs and the callback fails on none: iterate has visited
\* both and returned nil.
C10_Witness ==
    \E g \in Goroutines :
        /\ frame[g].op = "iterate" /\ pc[g] = "idle"
        /\ frame[g].failOn = {}
        /\ Cardinality(Cached) = 2
        /\ Range(frame[g].visited) = Cached
        /\ Len(frame[g].visited) = 2
        /\ ret[g] = NoRet

----------------------------------------------------------------------------
(* C11 *)

\* clusterID mod 16 taken from the binary digits: 2^16 is a multiple of 16,
\* so only the four low bits of the lowest limb count.
Low4Bits(x) == x[4] - 16 * (x[4] \div 16)

\* What key has returned for the cluster ids 0, 1, 15, 16, 17 and 2^64 - 1.
KeyTable(x, v) ==
    /\ x = <<0, 0, 0, 0>> => v = 0
    /\ x = <<0, 0, 0, 1>> => v = 1
    /\ x = <<0, 0, 0, 15>> => v = 15
    /\ x = <<0, 0, 0, 16>> => v = 0
    /\ x = <<0, 0, 0, 17>> => v = 1
    /\ x = MaxU64 => v = 15

\* C11: under the multiplexed keeper, key(clusterID) returns clusterID mod 16
\* for every clusterID it is called with, 2^64 - 1 included: a value in
\* 0..15 that depends on the clusterID alone, whatever the state of the
\* collection; the narrow and the full-width computation agree; and a call
\* of key changes neither the map nor the directories nor the opened dbs.
C11_ShardKey ==
    /\ [](\A g \in Goroutines :
            (frame[g].op = "key" /\ pc[g] = "idle")
                => /\ keeper = "multiplexed"
                   /\ ret[g] = [NoRet EXCEPT !.val = Low4Bits(frame[g].u64)]
                   /\ ret[g].val \in 0..15
                   /\ KeyTable(frame[g].u64, ret[g].val))
    /\ [](\A c \in ClusterIDs \cup 0..40 :
            key(c) = key64(ToU64(c)) /\ key(c) \in 0..15)
    /\ [][ \A g \in Goroutines :
              (Calls(g) /\ frame'[g].op = "key")
                  => /\ <<dbs', fs', opened', created', returned'>>
                         = <<dbs, fs, opened, created, returned>>
                     /\ keeper = "multiplexed" => pc'[g] = "idle"
         ]_vars

\* With a db in the map, key(2^64 - 1) has returned 15 and key(16) has
\* returned 0.
C11_Witness ==
    /\ keeper = "multiplexed"
    /\ DOMAIN dbs # {}
    /\ \E g, o \in Goroutines :
        /\ frame[g].op = "key" /\ pc[g] = "idle"
        /\ frame[g].u64 = MaxU64 /\ ret[g].val = 15
        /\ frame[o].op = "key" /\ pc[o] = "idle"
        /\ frame[o].u64 = <<0, 0, 0, 16>> /\ ret[o].val = 0

----------------------------------------------------------------------------
(* C12 *)

\* C12: under the multiplexed keeper, whatever number of groups has been
\* looked up, the map holds at most 16 entries and at most 16 dbs, every key
\* of the map is in 0..15, and, with calls made one at a time, at most 16
\* directories have been created and at most 16 opens have succeeded.
C12_AtMostSixteen ==
    keeper = "multiplexed" =>
        /\ Cardinality(DOMAIN dbs) <= 16
        /\ Cardinality(Cached) <= 16
        /\ \A k \in DOMAIN dbs : k \in 0..15
        /\ Len(created) <= 16
        /\ Len(opened) <= 16

\* getDB has returned a db for each of 18 cluster ids, and the map holds 16
\* dbs, opened on 16 directories.
C12_Witness ==
    /\ keeper = "multiplexed"
    /\ Cardinality({r[1] : r \in returned}) = 18
    /\ Cardinality(DOMAIN dbs) = 16
    /\ Cardinality(Cached) = 16
    /\ Len(created) = 16
    /\ Len(opened) = 16

----------------------------------------------------------------------------
(* C13 *)

\* C13: under the regular keeper a call of key panics, for every clusterID
\* and in every state: the call returns no value and no error, the process
\* is dead, and the map is as it was.  Nothing else panics: a step that is
\* not a call of key under the regular keeper leaves the process alive, so
\* getDB, iterate and multiplexedLog never reach key.
C13_RegularKeyPanics ==
    /\ [][\A g \in Goroutines :
            (Calls(g) /\ frame'[g].op = "key" /\ keeper = "regular")
                => /\ crashed' = "panic"
                   /\ pc'[g] = "panic"
                   /\ ret'[g].val = NoRet.val
                   /\ ret'[g].err = NilErr
                   /\ dbs' = dbs
                   /\ returned' = returned
         ]_vars
    /\ [][crashed' # crashed
            => /\ keeper = "regular"
               /\ \E g \in Goroutines : Calls(g) /\ frame'[g].op = "key"
         ]_vars
    /\ [](crashed # "no"
            => /\ keeper = "regular"
               /\ \A g \in Goroutines : pc[g] \in {"idle", "panic"}
               /\ \E g \in Goroutines : pc[g] = "panic" /\ frame[g].op = "key")
    /\ [](\A g \in Goroutines :
            (frame[g].op = "key" /\ keeper = "regular") => pc[g] = "panic")

\* Under the regular keeper key was called with 2^64 - 1 when the map held a
\* db, and the process is dead.
C13_Witness ==
    /\ keeper = "regular"
    /\ crashed = "panic"
    /\ DOMAIN dbs # {}
    /\ \E g \in Goroutines :
          /\ pc[g] = "panic"
          /\ frame[g].op = "key"
          /\ frame[g].u64 = MaxU64

----------------------------------------------------------------------------
(* C14 *)

\* The directory of the group (c, n), written out: /data/node-<c>-<n> under
\* the regular keeper, /data/shard-<c mod 16> under the multiplexed one.
C14_Dir(c, n) ==
    LET root == <<"/", "d", "a", "t", "a", "/">>
        node == <<"n", "o", "d", "e", "-">>
    IN  IF keeper = "multiplexed"
        THEN root \o <<"s", "h", "a", "r", "d", "-", "1">>
        ELSE CASE c = 1 /\ n = 1   -> root \o node \o <<"1", "-", "1">>
               [] c = 1 /\ n = 71  -> root \o node \o <<"1", "-", "7", "1">>
               [] c = 17 /\ n = 1  -> root \o node \o <<"1", "7", "-", "1">>
               [] c = 17 /\ n = 71 ->
                      root \o node \o <<"1", "7", "-", "7", "1">>

\* C14: in a getDB call that misses, Stat is asked about join(root, name of
\* the group), MkdirAll creates that directory, and open is given it as both
\* its first and its second argument; so every directory created or opened
\* is the directory of a group.
C14_PathsOfMiss ==
    /\ \A g \in Goroutines :
          (frame[g].op = "getDB" /\ ~frame[g].hit) =>
              LET d == C14_Dir(frame[g].clusterID, frame[g].nodeID)
              IN  /\ frame[g].nstat >= 1 => frame[g].statArg = d
                  /\ frame[g].nmkdir >= 1 => frame[g].mkdirArg = d
                  /\ (frame[g].nmkdir >= 1 /\ frame[g].mkdirErr = NilErr)
                        => d \in fs
                  /\ frame[g].nopen >= 1 => frame[g].openArgs = <<d, d>>
                  /\ (frame[g].nopen >= 1 /\ frame[g].openErr = NilErr)
                        => /\ frame[g].db \in 1..Len(opened)
                           /\ opened[frame[g].db] = d
    /\ \A i \in 1..Len(created) :
          \E id \in GroupIDs : created[i] = C14_Dir(id[1], id[2])
    /\ \A i \in 1..Len(opened) :
          \E id \in GroupIDs : opened[i] = C14_Dir(id[1], id[2])

\* Under the multiplexed keeper a getDB of node 71 of cluster 17 missed and
\* checked, created and opened /data/shard-1.
C14_Witness ==
    \E g \in Goroutines :
        /\ keeper = "multiplexed"
        /\ GotDB(g) /\ ~frame[g].hit
        /\ frame[g].clusterID = 17
        /\ frame[g].nodeID = 71
        /\ frame[g].nstat = 1 /\ frame[g].nmkdir = 1 /\ frame[g].nopen = 1
        /\ frame[g].statArg = C14_Dir(17, 71)
        /\ frame[g].mkdirArg = C14_Dir(17, 71)
        /\ frame[g].openArgs = <<C14_Dir(17, 71), C14_Dir(17, 71)>>

----------------------------------------------------------------------------
(* C15 *)

\* C15: the keeper chosen by newCollection never changes; multiplexedLog
\* answers false whenever the collection was built with the regular keeper
\* and true whenever it was built with the multiplexed one, whatever getDB
\* and iterate calls have run and however they ended; and a call of
\* multiplexedLog returns at once and leaves the map as it was.
C15_StrategyFixed ==
    /\ [][keeper' = keeper]_vars
    /\ [][\A g \in Goroutines :
            (Calls(g) /\ frame'[g].op = "multiplexedLog")
                => /\ pc'[g] = "idle"
                   /\ ret'[g].flag = (keeper = "multiplexed")
                   /\ ret'[g].err = NilErr
                   /\ dbs' = dbs
                   /\ crashed' = crashed
         ]_vars
    /\ [](\A g \in Goroutines :
            frame[g].op = "multiplexedLog"
                => /\ keeper = "regular" => ret[g].flag = FALSE
                   /\ keeper = "multiplexed" => ret[g].flag = TRUE)

\* Under the regular keeper multiplexedLog has answered false after one
\* getDB that returned a db and another that failed.
C15_Witness ==
    \E g, o \in Goroutines :
        /\ keeper = "regular"
        /\ frame[g].op = "multiplexedLog"
        /\ pc[g] = "idle"
        /\ ret[g].flag = FALSE
        /\ FailedDB(o)
        /\ DOMAIN dbs # {}
        /\ ncalls = MaxCalls

----------------------------------------------------------------------------
(* C16 *)

\* The steps of the getDB call in goroutine g's frame, in their order: a hit
\* does nothing else; MkdirAll follows a Stat that answered not-found, and
\* only such a Stat; open follows the one Stat; the db is registered and
\* returned only after the one open has succeeded.
StepOrder(g) ==
    /\ frame[g].hit
          => frame[g].nstat = 0 /\ frame[g].nmkdir = 0 /\ frame[g].nopen = 0
    /\ pc[g] \in {"mkdir", "open", "set"} => frame[g].nstat = 1
    /\ frame[g].nmkdir >= 1
          => /\ frame[g].nstat = 1
             /\ frame[g].statErr = ErrNotExist
             /\ frame[g].nmkdir = 1
    /\ (frame[g].statErr = ErrNotExist /\ pc[g] # "mkdir")
          => frame[g].nmkdir = 1
    /\ pc[g] = "mkdir" => frame[g].dbdir \notin fs
    /\ frame[g].nopen >= 1 => frame[g].nstat = 1 /\ frame[g].nopen = 1
    /\ (pc[g] = "set" \/ (GotDB(g) /\ ~frame[g].hit))
          => frame[g].nopen = 1 /\ frame[g].openErr = NilErr
    /\ FrameKey(frame[g]) \in DOMAIN dbs
          => \/ frame[g].hit
             \/ frame[g].nopen = 1 /\ frame[g].openErr = NilErr
                                   /\ pc[g] = "idle"
             \/ pc[g] = "idle" /\ ret[g].err # NilErr

\* Stat and MkdirAll of the getDB call in goroutine g's frame have answered
\* without an error: the directory was found, or it was not found and has
\* been created.
Prepared(g) ==
    /\ frame[g].nstat = 1
    /\ \/ frame[g].statErr = NilErr /\ frame[g].nmkdir = 0
       \/ /\ frame[g].statErr = ErrNotExist
          /\ frame[g].nmkdir = 1
          /\ frame[g].mkdirErr = NilErr

\* C16: in a getDB call the steps are the lookup, Stat, MkdirAll if and only
\* if Stat answered not-found, open, and the registration of the db; open is
\* not attempted unless Stat and MkdirAll have answered without an error;
\* and the db is registered only after open has succeeded.
C16_StepOrderPrepared ==
    \A g \in Goroutines :
        frame[g].op = "getDB" =>
            /\ StepOrder(g)
            /\ frame[g].nopen >= 1 => Prepared(g)

----------------------------------------------------------------------------
(* C17 *)

\* The maps m and n agree on every key but k.
SameBut(m, n, k) ==
    /\ DOMAIN m \ {k} = DOMAIN n \ {k}
    /\ \A j \in DOMAIN m \ {k} : m[j] = n[j]

\* C17: a step changes the keeper's map only if it is the registration at the
\* end of a getDB call that missed and returns a db, and it changes only the
\* entry of the lookup key of that call's (clusterID, nodeID); so a getDB
\* that hits and a getDB that returns an error change no entry.
C17_GetDBFrame ==
    /\ [][dbs' # dbs =>
            \E g \in Goroutines :
                /\ frame[g].op = "getDB" /\ ~frame[g].hit
                /\ pc[g] = "set" /\ pc'[g] = "idle"
                /\ frame'[g] = frame[g]
                /\ ret'[g].err = NilErr /\ ret'[g].db # NilDB
                /\ SameBut(dbs, dbs', FrameKey(frame[g]))
         ]_vars
    /\ [][\A g \in Goroutines :
            (Calls(g) /\ frame'[g].op = "getDB" /\ frame'[g].hit)
                => dbs' = dbs
         ]_vars
    /\ [][\A g \in Goroutines :
            (Returns(g) /\ frame'[g].op = "getDB" /\ ret'[g].err # NilErr)
                => dbs' = dbs
         ]_vars

\* One getDB has registered a second db beside the first, and a third getDB
\* has failed; the map holds the two dbs.
C17_Witness ==
    \E g, o \in Goroutines :
        /\ GotDB(g) /\ ~frame[g].hit
        /\ FailedDB(o)
        /\ Cardinality(DOMAIN dbs) = 2
        /\ Cardinality(Cached) = 2
        /\ ncalls = MaxCalls

----------------------------------------------------------------------------
(* C18 *)

\* The directory of the lookup key k, written out as in C14: the key is the
\* group under the regular keeper and the shard under the multiplexed one.
C18_DirOfKey(k) ==
    IF keeper = "regular" THEN C14_Dir(k.ClusterID, k.NodeID)
    ELSE <<"/", "d", "a", "t", "a", "/", "s", "h", "a", "r", "d", "-">>
            \o Itoa(k)

\* C18: with calls made one at a time, the db registered under a lookup key
\* was opened on the directory of that key, the dbs of two lookup keys were
\* opened on two directories, no directory has been opened with success more
\* than once, and every db opened is registered or about to be.
C18_OneDirPerHandle ==
    /\ \A k \in DOMAIN dbs :
          /\ dbs[k] \in 1..Len(opened)
          /\ opened[dbs[k]] = C18_DirOfKey(k)
    /\ \A k1, k2 \in DOMAIN dbs :
          k1 # k2 => opened[dbs[k1]] # opened[dbs[k2]]
    /\ \A i, j \in 1..Len(opened) : i # j => opened[i] # opened[j]
    /\ \A i \in 1..Len(opened) :
          \/ i \in Cached
          \/ \E g \in Goroutines : pc[g] = "set" /\ frame[g].db = i

\* Three lookup keys hold three dbs, opened on three directories.
C18_Witness ==
    /\ Cardinality(DOMAIN dbs) = 3
    /\ Cardinality(Cached) = 3
    /\ Cardinality(Range(opened)) = 3
    /\ \A k \in DOMAIN dbs : opened[dbs[k]] = C18_DirOfKey(k)

====
